---- MODULE Spec2Model ----
(***************************************************************************)
(* A model of package lazy (github.com/iwanhae/lazy): a pipeline           *)
(*     NewSlice -> (Map | Filter)* -> Consume                              *)
(* Every source and transform runs one goroutine that owns one output      *)
(* channel; Consume runs on the caller's goroutine.  Channel c = 0 is the  *)
(* output of NewSlice, channel c = i the output of the i-th transform.     *)
(*                                                                         *)
(* The operators are generic in the element type, so the values carry no   *)
(* behaviour of their own: the input slice is <<1, .., n>> (distinct       *)
(* values show a loss, a duplicate or a reordering), and what a user       *)
(* function returns for a value (result, error, decision) is chosen at     *)
(* each call, which covers every function, pure or not.                    *)
(***************************************************************************)
EXTENDS Integers, Sequences, FiniteSets, TLC

\* Bounds of the model.
MaxLen == 2      \* longest input slice
MaxCap == 1      \* largest capacity given to WithSize
MaxOpts == 3     \* longest option list given to buildOpts alone

\* error values: Nil is Go's nil error.
Nil == "nil"
Boom == "boom"
UserErrs == {Boom}

DecisionStop == "stop"
DecisionIgnore == "ignore"
NoDecision == "none"     \* the handler was not called

\* The two error handlers a stage can run with: the package default, and a
\* handler given by the caller, which may return either decision.
IgnoreErrorHandler == "IgnoreErrorHandler"
UserHandler == "UserHandler"
\* a caller's handler that returns whatever string it likes as its Decision
AnyStringHandler == "AnyStringHandler"
OtherDecisions == {"", "retry"}

HandlerDecisions(h) ==
    IF h = IgnoreErrorHandler THEN {DecisionIgnore}
    ELSE IF h = UserHandler THEN {DecisionStop, DecisionIgnore}
    ELSE {DecisionStop, DecisionIgnore} \cup OtherDecisions

\* optionFunc values
WithSize(n) == [opt |-> "size", size |-> n, handler |-> IgnoreErrorHandler]
WithErrHandler(h) == [opt |-> "handler", size |-> 0, handler |-> h]

\* a WithSize closure that overwrites the whole configuration
ApplyOptReset(o, f) ==
    IF f.opt = "size" THEN [size |-> f.size, onError |-> f.handler]
    ELSE [o EXCEPT !.onError = f.handler]

ApplyOpt(o, f) ==
    IF f.opt = "size" THEN [o EXCEPT !.size = f.size]
    ELSE [o EXCEPT !.onError = f.handler]

RECURSIVE ApplyOpts(_, _)
ApplyOpts(o, fs) ==
    IF fs = <<>> THEN o ELSE ApplyOpts(ApplyOpt(o, Head(fs)), Tail(fs))

buildOpts(fs) == ApplyOpts([size |-> 0, onError |-> IgnoreErrorHandler], fs)

\* every option a caller can write, and the lists of at most n of them
AllOpts ==
    {WithSize(n) : n \in 0..MaxCap}
        \cup {WithErrHandler(h) : h \in {IgnoreErrorHandler, UserHandler}}

RECURSIVE OptLists(_)
OptLists(n) ==
    IF n = 0 THEN {<<>>}
    ELSE LET S == OptLists(n - 1)
         IN  S \cup {Append(fs, f) : fs \in S, f \in AllOpts}

\* the size of the last WithSize of fs, the handler of its last WithErrHandler
LastSize(fs) ==
    LET S == {k \in 1..Len(fs) : fs[k].opt = "size"}
    IN  IF S = {} THEN 0
        ELSE fs[CHOOSE k \in S : \A j \in S : j <= k].size

LastHandler(fs) ==
    LET S == {k \in 1..Len(fs) : fs[k].opt = "handler"}
    IN  IF S = {} THEN IgnoreErrorHandler
        ELSE fs[CHOOSE k \in S : \A j \in S : j <= k].handler

\* The pipelines checked: the chains of transforms between NewSlice and Consume.
Chains == {<<"Map">>, <<"Filter">>, <<"Filter", "Map">>, <<"Map", "Filter">>}

Slices == {[k \in 1..n |-> k] : n \in 0..MaxLen}

SizeOpts == {<<>>} \cup {<<WithSize(n)>> : n \in 1..MaxCap}
StageOpts == SizeOpts \cup {s \o <<WithErrHandler(UserHandler)>> : s \in SizeOpts}
LooseOpts == {s \o <<WithErrHandler(AnyStringHandler)>> : s \in SizeOpts}

\* channel and stage indices of the longest chain
AllChans == 0..2
AllStages == AllChans \ {0}

VARIABLES
    inq,        \* the caller's queue given to New (on: the source is New;
                \* got: what New received from it; closedBy: who closed it)
    built,      \* the result of a call of buildOpts alone (<<>>: none)
    slice,      \* the input of NewSlice, or what the caller feeds to New
    kinds,      \* the chain of transforms: kinds[i] is "Map" or "Filter"
    opts,       \* opts[c]: the options given to the stage that owns channel c
    idx,        \* index of the element NewSlice (New: the caller) is sending
    pc,         \* pc[c]: where the worker that owns channel c is
    held,       \* held[i]: the candidate transform i is sending (0: none)
    buf,        \* buf[c]: the queue of channel c
    closedBy,   \* closedBy[c]: who closed channel c, one entry per close
    sent,       \* sent[c]: every value enqueued on channel c so far
    calls,      \* calls[i]: the user-function calls of transform i
    ccalls,     \* the consumer calls of Consume
    ret,        \* Consume: "running", or the error it returned (Nil: none)
    cancelled,  \* ctx.Done() is closed
    faulted,    \* transforms whose user function panicked
    crashed     \* the process died of an unrecovered panic

vars == <<inq, built, slice, kinds, opts, idx, pc, held, buf, closedBy, sent, calls,
          ccalls, ret, cancelled, faulted, crashed>>

N == Len(kinds)
Chans == 0..N
Stages == 1..N

Cap(c) == buildOpts(opts[c]).size
Handler(i) == buildOpts(opts[i]).onError
Closed(c) == closedBy[c] # <<>>

\* mapper's result for v (examples: v * 10); Filter forwards v itself.
MapResult(v) == v * 10

\* the pipelines with the given source and the chains of `chains`
Construct(fromQueue, chains, stageOpts) ==
    /\ inq = [on |-> fromQueue, got |-> <<>>, closedBy |-> <<>>]
    /\ built = <<>>
    /\ slice \in Slices
    /\ kinds \in chains
    /\ opts \in {o \in [AllChans -> stageOpts \cup SizeOpts] :
                   /\ o[0] \in SizeOpts
                   /\ \A c \in 1..Len(kinds) : o[c] \in stageOpts
                   /\ \A c \in AllChans : c > Len(kinds) => o[c] = <<>>}
    /\ idx = 1
    /\ pc = [c \in AllChans |->
               IF c = 0
               THEN (IF fromQueue THEN "recv"
                     ELSE IF slice = <<>> THEN "exit" ELSE "send")
               ELSE IF c <= Len(kinds) THEN "recv" ELSE "none"]
    /\ held = [c \in AllChans |-> 0]
    /\ buf = [c \in AllChans |-> <<>>]
    /\ closedBy = [c \in AllChans |-> <<>>]
    /\ sent = [c \in AllChans |-> <<>>]
    /\ calls = [c \in AllChans |-> <<>>]
    /\ ccalls = <<>>
    /\ ret = "running"
    /\ cancelled = FALSE
    /\ faulted = {}
    /\ crashed = FALSE

\* NewSlice(ctx, slice, opts...) followed by the transforms and Consume
Init == Construct(FALSE, Chains, StageOpts)

\* channel c is the output of NewSlice (not of New, not of a transform)
FromSlice(c) == c = 0 /\ ~inq.on

(***************************************************************************)
(* Channels.  A receive from channel c takes the head of its queue; on a   *)
(* channel of capacity 0 it takes the value straight from the producer     *)
(* that stands at its send, which completes that send.                     *)
(***************************************************************************)
Offer(c) == IF FromSlice(c) THEN slice[idx] ELSE held[c]
Ready(c) == buf[c] # <<>> \/ (Cap(c) = 0 /\ pc[c] = "send")
AtEnd(c) == Closed(c) /\ buf[c] = <<>>
RecvVal(c) == IF buf[c] # <<>> THEN Head(buf[c]) ELSE Offer(c)

\* where the producer of c goes once its send has completed
AfterSend(c) ==
    IF FromSlice(c)
    THEN (IF idx = Len(slice) THEN "exit" ELSE "send")
    ELSE "recv"

\* the state of the channel and of its producer after a receive from c
TakenPc(c) == IF buf[c] # <<>> THEN pc ELSE [pc EXCEPT ![c] = AfterSend(c)]
TakenHeld(c) == IF buf[c] # <<>> THEN held ELSE [held EXCEPT ![c] = 0]
TakenIdx(c) == IF buf[c] = <<>> /\ FromSlice(c) THEN idx + 1 ELSE idx
TakenBuf(c) == IF buf[c] # <<>> THEN [buf EXCEPT ![c] = Tail(@)] ELSE buf
TakenSent(c) ==
    IF buf[c] # <<>> THEN sent ELSE [sent EXCEPT ![c] = Append(@, Offer(c))]

\* a send on a queue without a limit
BufferedSendNoLimit(c) ==
    /\ pc[c] = "send"
    /\ buf' = [buf EXCEPT ![c] = Append(@, Offer(c))]
    /\ sent' = [sent EXCEPT ![c] = Append(@, Offer(c))]
    /\ pc' = [pc EXCEPT ![c] = AfterSend(c)]
    /\ held' = [held EXCEPT ![c] = 0]
    /\ idx' = IF FromSlice(c) THEN idx + 1 ELSE idx

\* case ch <- v of a select (or a bare ch <- v) into a queue with room
BufferedSend(c) ==
    /\ pc[c] = "send"
    /\ Len(buf[c]) < Cap(c)
    /\ buf' = [buf EXCEPT ![c] = Append(@, Offer(c))]
    /\ sent' = [sent EXCEPT ![c] = Append(@, Offer(c))]
    /\ pc' = [pc EXCEPT ![c] = AfterSend(c)]
    /\ held' = [held EXCEPT ![c] = 0]
    /\ idx' = IF FromSlice(c) THEN idx + 1 ELSE idx

\* a worker whose close(ch) is not deferred: it returns and leaves ch open
ReturnWithoutClose(c) ==
    /\ pc' = [pc EXCEPT ![c] = "done"]
    /\ held' = [held EXCEPT ![c] = 0]
    /\ closedBy' = closedBy

\* return: the deferred close(ch) runs, then the deferred recover()
ReturnAndClose(c) ==
    /\ pc' = [pc EXCEPT ![c] = "done"]
    /\ held' = [held EXCEPT ![c] = 0]
    /\ closedBy' = [closedBy EXCEPT ![c] = Append(@, c)]

(***************************************************************************)
(* New: the source that wraps a queue of the caller.  The caller's         *)
(* goroutine sends slice[1], slice[2], ... on its unbuffered queue and     *)
(* then closes it; New's worker receives from the queue and forwards each  *)
(* value on its own channel, watching ctx.Done() while it waits.           *)
(***************************************************************************)
\* the caller is blocked in `in <- slice[idx]`
CallerSending == inq.on /\ inq.closedBy = <<>> /\ idx <= Len(slice)

\* the caller's deferred close(in) after its last send
CallerClose ==
    /\ ~crashed
    /\ inq.on
    /\ inq.closedBy = <<>>
    /\ idx > Len(slice)
    /\ inq' = [inq EXCEPT !.closedBy = Append(@, "caller")]
    /\ UNCHANGED <<built, slice, kinds, opts, idx, pc, held, buf, closedBy, sent,
                   calls, ccalls, ret, cancelled, faulted, crashed>>

\* v, ok := <-in with ok: the caller's send completes
NewRecv ==
    /\ ~crashed
    /\ pc[0] = "recv"
    /\ CallerSending
    /\ inq' = [inq EXCEPT !.got = Append(@, slice[idx])]
    /\ held' = [held EXCEPT ![0] = slice[idx]]
    /\ idx' = idx + 1
    /\ pc' = [pc EXCEPT ![0] = "send"]
    /\ UNCHANGED <<built, slice, kinds, opts, buf, closedBy, sent, calls, ccalls,
                   ret, cancelled, faulted, crashed>>

\* case ch <- v
NewSend ==
    /\ ~crashed
    /\ inq.on
    /\ BufferedSend(0)
    /\ UNCHANGED <<inq, built, slice, kinds, opts, closedBy, calls, ccalls, ret,
                   cancelled, faulted, crashed>>

\* New that goes on waiting on a closed queue
NewEndIgnored == FALSE /\ UNCHANGED vars

\* v, ok := <-in with !ok: the caller closed its queue; return
NewEnd ==
    /\ ~crashed
    /\ inq.on
    /\ pc[0] = "recv"
    /\ inq.closedBy # <<>>
    /\ ReturnAndClose(0)
    /\ UNCHANGED <<inq, built, slice, kinds, opts, idx, buf, sent, calls, ccalls,
                   ret, cancelled, faulted, crashed>>

\* case <-ctx.Done(): return, while waiting to receive or to send
NewCancel ==
    /\ ~crashed
    /\ inq.on
    /\ pc[0] \in {"recv", "send"}
    /\ cancelled
    /\ ReturnAndClose(0)
    /\ UNCHANGED <<inq, built, slice, kinds, opts, idx, buf, sent, calls, ccalls,
                   ret, cancelled, faulted, crashed>>

(***************************************************************************)
(* NewSlice                                                                *)
(***************************************************************************)
SliceSend ==
    /\ ~crashed
    /\ FromSlice(0)
    /\ BufferedSend(0)
    /\ UNCHANGED <<inq, built, slice, kinds, opts, closedBy, calls, ccalls, ret,
                   cancelled, faulted, crashed>>

\* NewSlice with a bare ch <- v: there is no cancellation case to take
SliceCancelBare == FALSE /\ UNCHANGED vars

SliceCancel ==
    /\ ~crashed
    /\ FromSlice(0)
    /\ pc[0] = "send"
    /\ cancelled
    /\ ReturnAndClose(0)
    /\ UNCHANGED <<inq, built, slice, kinds, opts, idx, buf, sent, calls, ccalls, ret,
                   cancelled, faulted, crashed>>

\* NewSlice that closes ch only on cancellation, not after the last element
SliceExhaustNoClose ==
    /\ ~crashed
    /\ pc[0] = "exit"
    /\ pc' = [pc EXCEPT ![0] = "done"]
    /\ UNCHANGED <<inq, built, slice, kinds, opts, idx, held, buf, closedBy, sent, calls,
                   ccalls, ret, cancelled, faulted, crashed>>

SliceExhaust ==
    /\ ~crashed
    /\ pc[0] = "exit"
    /\ ReturnAndClose(0)
    /\ UNCHANGED <<inq, built, slice, kinds, opts, idx, buf, sent, calls, ccalls, ret,
                   cancelled, faulted, crashed>>

(***************************************************************************)
(* Map and Filter.  One step receives the next upstream value and runs the *)
(* user function (and, on an error, the error handler) on it; what the     *)
(* loop body does next is "return", "continue" or "select" (the guarded    *)
(* send of the candidate).                                                 *)
(***************************************************************************)
\* Map that goes on with the next value after a Stop decision
MapOutcomeStopIgnored(err, d) == IF err # Nil THEN "continue" ELSE "select"

\* Map without the continue after an ignored error: it falls through to the
\* send of the result
MapOutcomeFallThrough(err, d) ==
    IF err # Nil /\ d = DecisionStop THEN "return" ELSE "select"

\* Map that goes on only after the Ignore value, and stops otherwise
MapOutcomeStopUnlessIgnore(err, d) ==
    IF err # Nil
    THEN (IF d = DecisionIgnore THEN "continue" ELSE "return")
    ELSE "select"

MapOutcome(err, d) ==
    IF err # Nil
    THEN (IF d = DecisionStop THEN "return" ELSE "continue")
    ELSE "select"

\* Filter that goes on with the next value after a Stop decision
FilterOutcomeStopIgnored(ok, err, d) ==
    IF err # Nil THEN "continue" ELSE IF ~ok THEN "continue" ELSE "select"

\* Filter without the test of the predicate's boolean
FilterOutcomeNoReject(ok, err, d) ==
    IF err # Nil
    THEN (IF d = DecisionStop THEN "return" ELSE "continue")
    ELSE "select"

FilterOutcome(ok, err, d) ==
    IF err # Nil
    THEN (IF d = DecisionStop THEN "return" ELSE "continue")
    ELSE IF ~ok THEN "continue" ELSE "select"

\* the decisions the handler of stage i can return for err (none: not called)
Decisions(i, err) ==
    IF err = Nil THEN {NoDecision} ELSE HandlerDecisions(Handler(i))

\* a handler that is handed the error wrapped, not the error itself
HandlerArgWrapped(err) == IF err = Nil THEN NoDecision ELSE "wrapped"

\* what opt.onError is called with after the user function returned err
\* (none: it is not called)
HandlerArg(err) == IF err = Nil THEN NoDecision ELSE err

\* stage i has received v, its user function returned (ok, err), the handler
\* d, and the loop body goes on with `outcome`, the candidate being `cand`
LoopBody(i, v, ok, err, d, outcome, cand) ==
    /\ calls' = [calls EXCEPT
                   ![i] = Append(@, [v |-> v, ok |-> ok, err |-> err,
                                     harg |-> HandlerArg(err), dec |-> d])]
    /\ idx' = TakenIdx(i - 1)
    /\ buf' = TakenBuf(i - 1)
    /\ sent' = TakenSent(i - 1)
    /\ IF outcome = "return"
       THEN /\ pc' = [TakenPc(i - 1) EXCEPT ![i] = "done"]
            /\ held' = TakenHeld(i - 1)
            /\ closedBy' = [closedBy EXCEPT ![i] = Append(@, i)]
       ELSE IF outcome = "select"
       THEN /\ pc' = [TakenPc(i - 1) EXCEPT ![i] = "send"]
            /\ held' = [TakenHeld(i - 1) EXCEPT ![i] = cand]
            /\ closedBy' = closedBy
       ELSE /\ pc' = TakenPc(i - 1)
            /\ held' = TakenHeld(i - 1)
            /\ closedBy' = closedBy

MapCall(i) ==
    /\ ~crashed
    /\ kinds[i] = "Map"
    /\ pc[i] = "recv"
    /\ Ready(i - 1)
    /\ \E err \in UserErrs \cup {Nil} : \E d \in Decisions(i, err) :
          LoopBody(i, RecvVal(i - 1), TRUE, err, d, MapOutcome(err, d),
                   MapResult(RecvVal(i - 1)))
    /\ UNCHANGED <<inq, built, slice, kinds, opts, ccalls, ret, cancelled, faulted, crashed>>

FilterCall(i) ==
    /\ ~crashed
    /\ kinds[i] = "Filter"
    /\ pc[i] = "recv"
    /\ Ready(i - 1)
    /\ \E ok \in BOOLEAN : \E err \in UserErrs \cup {Nil} :
          \E d \in Decisions(i, err) :
            LoopBody(i, RecvVal(i - 1), ok, err, d, FilterOutcome(ok, err, d),
                     RecvVal(i - 1))
    /\ UNCHANGED <<inq, built, slice, kinds, opts, ccalls, ret, cancelled, faulted, crashed>>

\* for v := range obj.ch ends: upstream is closed and drained
StageEnd(i) ==
    /\ pc[i] = "recv"
    /\ AtEnd(i - 1)
    /\ ReturnAndClose(i)
    /\ UNCHANGED <<inq, built, slice, kinds, opts, idx, buf, sent, calls, ccalls, ret,
                   cancelled, faulted, crashed>>

\* a send that is retried although it went through: the candidate is
\* enqueued and the worker stays at its select with it
StageSendAgain(i) ==
    /\ pc[i] = "send"
    /\ Len(buf[i]) < Cap(i)
    /\ buf' = [buf EXCEPT ![i] = Append(@, Offer(i))]
    /\ sent' = [sent EXCEPT ![i] = Append(@, Offer(i))]
    /\ UNCHANGED <<inq, built, slice, kinds, opts, idx, pc, held, closedBy,
                   calls, ccalls, ret, cancelled, faulted, crashed>>

\* select: case ch <- candidate
StageSend(i) ==
    /\ BufferedSend(i)
    /\ UNCHANGED <<inq, built, slice, kinds, opts, closedBy, calls, ccalls, ret,
                   cancelled, faulted, crashed>>

\* a cancellation case that drops the candidate and goes on with the loop
StageCancelSkips(i) ==
    /\ pc[i] = "send"
    /\ cancelled
    /\ pc' = [pc EXCEPT ![i] = "recv"]
    /\ held' = [held EXCEPT ![i] = 0]
    /\ UNCHANGED <<inq, built, slice, kinds, opts, idx, buf, closedBy, sent, calls,
                   ccalls, ret, cancelled, faulted, crashed>>

\* select: case <-ctx.Done(): return
StageCancel(i) ==
    /\ pc[i] = "send"
    /\ cancelled
    /\ ReturnAndClose(i)
    /\ UNCHANGED <<inq, built, slice, kinds, opts, idx, buf, sent, calls, ccalls, ret,
                   cancelled, faulted, crashed>>

MapEnd(i) == ~crashed /\ kinds[i] = "Map" /\ StageEnd(i)
MapSend(i) == ~crashed /\ kinds[i] = "Map" /\ StageSend(i)
\* Map with a bare ch <- result: there is no cancellation case to take
MapCancelBare(i) == FALSE /\ UNCHANGED vars

MapCancel(i) == ~crashed /\ kinds[i] = "Map" /\ StageCancel(i)

FilterEnd(i) == ~crashed /\ kinds[i] = "Filter" /\ StageEnd(i)
FilterSend(i) == ~crashed /\ kinds[i] = "Filter" /\ StageSend(i)
FilterCancel(i) == ~crashed /\ kinds[i] = "Filter" /\ StageCancel(i)

(***************************************************************************)
(* A panic of the user function.  The deferred close(ch) runs; recover()   *)
(* is then called by the defer statement itself, not by a deferred         *)
(* function, so it returns nil and the panic goes on to end the process.   *)
(***************************************************************************)
DeferRecoverStopsPanic == FALSE

StageFault(i) ==
    /\ pc[i] = "recv"
    /\ Ready(i - 1)
    /\ faulted' = faulted \cup {i}
    /\ idx' = TakenIdx(i - 1)
    /\ buf' = TakenBuf(i - 1)
    /\ sent' = TakenSent(i - 1)
    /\ pc' = [TakenPc(i - 1) EXCEPT ![i] = "done"]
    /\ held' = TakenHeld(i - 1)
    /\ closedBy' = [closedBy EXCEPT ![i] = Append(@, i)]
    /\ crashed' = ~DeferRecoverStopsPanic
    /\ UNCHANGED <<inq, built, slice, kinds, opts, calls, ccalls, ret, cancelled>>

MapFault(i) == ~crashed /\ kinds[i] = "Map" /\ StageFault(i)
FilterFault(i) == ~crashed /\ kinds[i] = "Filter" /\ StageFault(i)

(***************************************************************************)
(* Consume, on the caller's goroutine                                      *)
(***************************************************************************)
ConsumerErrs == {Boom}

\* Consume that drops the consumer's error and goes on
ConsumeReturnSwallow(err) == "running"

\* if err := consumer(v); err != nil { return err }
ConsumeReturn(err) == IF err # Nil THEN err ELSE "running"

\* a Consume that fires the cancellation when it returns the consumer's error
ConsumeCallSignals ==
    /\ ~crashed
    /\ ret = "running"
    /\ Ready(N)
    /\ \E err \in ConsumerErrs \cup {Nil} :
          /\ ccalls' = Append(ccalls, [v |-> RecvVal(N), err |-> err])
          /\ ret' = ConsumeReturn(err)
          /\ cancelled' = (cancelled \/ err # Nil)
    /\ idx' = TakenIdx(N)
    /\ buf' = TakenBuf(N)
    /\ sent' = TakenSent(N)
    /\ pc' = TakenPc(N)
    /\ held' = TakenHeld(N)
    /\ UNCHANGED <<inq, built, slice, kinds, opts, closedBy, calls, faulted, crashed>>

ConsumeCall ==
    /\ ~crashed
    /\ ret = "running"
    /\ Ready(N)
    /\ \E err \in ConsumerErrs \cup {Nil} :
          /\ ccalls' = Append(ccalls, [v |-> RecvVal(N), err |-> err])
          /\ ret' = ConsumeReturn(err)
    /\ idx' = TakenIdx(N)
    /\ buf' = TakenBuf(N)
    /\ sent' = TakenSent(N)
    /\ pc' = TakenPc(N)
    /\ held' = TakenHeld(N)
    /\ UNCHANGED <<inq, built, slice, kinds, opts, closedBy, calls, cancelled, faulted,
                   crashed>>

\* a consumer that calls cancel() itself and returns nil
ConsumeCallCancel ==
    /\ ~crashed
    /\ ~cancelled
    /\ ret = "running"
    /\ Ready(N)
    /\ ccalls' = Append(ccalls, [v |-> RecvVal(N), err |-> Nil])
    /\ cancelled' = TRUE
    /\ idx' = TakenIdx(N)
    /\ buf' = TakenBuf(N)
    /\ sent' = TakenSent(N)
    /\ pc' = TakenPc(N)
    /\ held' = TakenHeld(N)
    /\ UNCHANGED <<inq, built, slice, kinds, opts, closedBy, calls, ret, faulted,
                   crashed>>

\* Consume that reports the cancellation when its stream ends
ConsumeEndCtxErr ==
    /\ ~crashed
    /\ ret = "running"
    /\ AtEnd(N)
    /\ ret' = IF cancelled THEN "context canceled" ELSE Nil
    /\ UNCHANGED <<inq, built, slice, kinds, opts, idx, pc, held, buf,
                   closedBy, sent, calls, ccalls, cancelled, faulted, crashed>>

\* the range loop ends: return nil
ConsumeEnd ==
    /\ ~crashed
    /\ ret = "running"
    /\ AtEnd(N)
    /\ ret' = Nil
    /\ UNCHANGED <<inq, built, slice, kinds, opts, idx, pc, held, buf, closedBy, sent,
                   calls, ccalls, cancelled, faulted, crashed>>

(***************************************************************************)
(* The caller's cancel(): closes ctx.Done(), once                          *)
(***************************************************************************)
Cancel ==
    /\ ~crashed
    /\ ~cancelled
    /\ cancelled' = TRUE
    /\ UNCHANGED <<inq, built, slice, kinds, opts, idx, pc, held, buf, closedBy, sent,
                   calls, ccalls, ret, faulted, crashed>>

SliceNext == SliceSend \/ SliceCancel \/ SliceExhaust

StageNext(i) ==
    \/ MapCall(i) \/ MapSend(i) \/ MapCancel(i) \/ MapEnd(i)
    \/ FilterCall(i) \/ FilterSend(i) \/ FilterCancel(i) \/ FilterEnd(i)

ConsumeNext == ConsumeCall \/ ConsumeEnd

Next ==
    \/ SliceSend
    \/ SliceCancel
    \/ SliceExhaust
    \/ \E i \in Stages : MapCall(i)
    \/ \E i \in Stages : MapSend(i)
    \/ \E i \in Stages : MapCancel(i)
    \/ \E i \in Stages : MapEnd(i)
    \/ \E i \in Stages : FilterCall(i)
    \/ \E i \in Stages : FilterSend(i)
    \/ \E i \in Stages : FilterCancel(i)
    \/ \E i \in Stages : FilterEnd(i)
    \/ ConsumeCall
    \/ ConsumeEnd
    \/ Cancel

Spec == Init /\ [][Next]_vars

\* Every goroutine that can take a step eventually takes one.
Fairness ==
    /\ WF_vars(SliceNext)
    /\ \A i \in AllStages : WF_vars(i \in Stages /\ StageNext(i))
    /\ WF_vars(ConsumeNext)

FairSpec == Spec /\ Fairness

\* The same program with user functions that may panic.
NextFault ==
    \/ Next
    \/ \E i \in Stages : MapFault(i)
    \/ \E i \in Stages : FilterFault(i)

SpecFault == Init /\ [][NextFault]_vars

\* The pipelines of Spec when nobody but the consumer calls cancel().
NextConsumerCancels ==
    \/ SliceSend
    \/ SliceCancel
    \/ SliceExhaust
    \/ \E i \in Stages : MapCall(i)
    \/ \E i \in Stages : MapSend(i)
    \/ \E i \in Stages : MapCancel(i)
    \/ \E i \in Stages : MapEnd(i)
    \/ \E i \in Stages : FilterCall(i)
    \/ \E i \in Stages : FilterSend(i)
    \/ \E i \in Stages : FilterCancel(i)
    \/ \E i \in Stages : FilterEnd(i)
    \/ ConsumeCall
    \/ ConsumeCallCancel
    \/ ConsumeEnd

SpecConsumerCancels == Init /\ [][NextConsumerCancels]_vars

\* The pipelines of Spec with handlers that return any string.
InitDecisions == Construct(FALSE, Chains, LooseOpts)

SpecDecisions == InitDecisions /\ [][Next]_vars

\* buildOpts alone, on every option list of at most MaxOpts options
InitOpts ==
    /\ inq = [on |-> FALSE, got |-> <<>>, closedBy |-> <<>>]
    /\ built = <<>>
    /\ slice = <<>>
    /\ kinds = <<>>
    /\ opts \in {[c \in AllChans |-> IF c = 0 THEN fs ELSE <<>>] :
                   fs \in OptLists(MaxOpts)}
    /\ idx = 1
    /\ pc = [c \in AllChans |-> "none"]
    /\ held = [c \in AllChans |-> 0]
    /\ buf = [c \in AllChans |-> <<>>]
    /\ closedBy = [c \in AllChans |-> <<>>]
    /\ sent = [c \in AllChans |-> <<>>]
    /\ calls = [c \in AllChans |-> <<>>]
    /\ ccalls = <<>>
    /\ ret = "running"
    /\ cancelled = FALSE
    /\ faulted = {}
    /\ crashed = FALSE

\* opt := buildOpts(opts)
BuildOpts ==
    /\ built = <<>>
    /\ pc[0] = "none"
    /\ built' = <<buildOpts(opts[0])>>
    /\ UNCHANGED <<inq, slice, kinds, opts, idx, pc, held, buf, closedBy, sent,
                   calls, ccalls, ret, cancelled, faulted, crashed>>

NextOpts == BuildOpts

SpecOpts == InitOpts /\ [][NextOpts]_vars

\* New(ctx, in, opts...) -> Map -> Consume, fed by the caller's goroutine
InitNew == Construct(TRUE, {<<"Map">>}, StageOpts)

NewNext == NewRecv \/ NewSend \/ NewEnd \/ NewCancel

NextNew ==
    \/ CallerClose
    \/ NewRecv
    \/ NewSend
    \/ NewEnd
    \/ NewCancel
    \/ \E i \in Stages : MapCall(i)
    \/ \E i \in Stages : MapSend(i)
    \/ \E i \in Stages : MapCancel(i)
    \/ \E i \in Stages : MapEnd(i)
    \/ ConsumeCall
    \/ ConsumeEnd
    \/ Cancel

SpecNew == InitNew /\ [][NextNew]_vars

\* the pipelines on either source
InitSources == Init \/ InitNew

NextSources ==
    \/ SliceSend
    \/ SliceCancel
    \/ SliceExhaust
    \/ CallerClose
    \/ NewRecv
    \/ NewSend
    \/ NewEnd
    \/ NewCancel
    \/ \E i \in Stages : MapCall(i)
    \/ \E i \in Stages : MapSend(i)
    \/ \E i \in Stages : MapCancel(i)
    \/ \E i \in Stages : MapEnd(i)
    \/ \E i \in Stages : FilterCall(i)
    \/ \E i \in Stages : FilterSend(i)
    \/ \E i \in Stages : FilterCancel(i)
    \/ \E i \in Stages : FilterEnd(i)
    \/ ConsumeCall
    \/ ConsumeEnd
    \/ Cancel

SpecSources == InitSources /\ [][NextSources]_vars

FairSpecNew ==
    /\ SpecNew
    /\ WF_vars(CallerClose)
    /\ WF_vars(NewNext)
    /\ \A i \in AllStages : WF_vars(i \in Stages /\ StageNext(i))
    /\ WF_vars(ConsumeNext)
(***************************************************************************)
(* Properties                                                              *)
(***************************************************************************)
Exited(c) == pc[c] = "done" /\ Closed(c)
AllExited == \A c \in Chans : Exited(c)
Quiescent == AllExited /\ ret # "running"

\* the values of a call log, in call order
Vals(log) == [k \in 1..Len(log) |-> log[k].v]
Consumed == Vals(ccalls)

\* a call whose value is a candidate for emission
Accepted(r) == r.err = Nil /\ r.ok

\* the candidates stage i produces from the calls of log
Candidates(i, log) ==
    LET acc == SelectSeq(log, Accepted)
    IN  [k \in 1..Len(acc) |->
           IF kinds[i] = "Map" THEN MapResult(acc[k].v) ELSE acc[k].v]

HasStop(i) == \E k \in 1..Len(calls[i]) : calls[i][k].dec = DecisionStop
StopAt(i) ==
    CHOOSE k \in 1..Len(calls[i]) :
        /\ calls[i][k].dec = DecisionStop
        /\ \A j \in 1..(k - 1) : calls[i][j].dec # DecisionStop
AnyStop == \E i \in Stages : HasStop(i)
ConsumerFailed == \E k \in 1..Len(ccalls) : ccalls[k].err # Nil

\* C1: NewSlice -> Map -> Consume with the default handler, no cancellation
\* and a consumer that never fails: when Consume has returned, the mapper
\* has been called on exactly the input elements, in order, and the
\* consumer has received the results of exactly the calls that returned no
\* error, in input order.
C1_MapIgnoreDelivers ==
    (/\ kinds = <<"Map">>
     /\ Handler(1) = IgnoreErrorHandler
     /\ ~cancelled
     /\ ret = Nil)
    => /\ Vals(calls[1]) = slice
       /\ Consumed = Candidates(1, calls[1])

C1_Witness ==
    /\ kinds = <<"Map">>
    /\ Handler(1) = IgnoreErrorHandler
    /\ ~cancelled
    /\ ret = Nil
    /\ Len(slice) >= 2
    /\ Consumed # <<>>
    /\ \E k \in 1..Len(calls[1]) : calls[1][k].err # Nil

\* C2: when the handler of a stage returns Stop, the failing call is the
\* stage's last, the stage has exited with its output closed, the values it
\* enqueued are exactly the candidates of the calls before the failing one,
\* and, for the last stage, Consume delivers all of them (also those still
\* queued at the close) and returns nil unless the consumer itself failed.
C2_StopDeliversPrefix ==
    \A i \in Stages :
        HasStop(i) =>
            /\ Len(calls[i]) = StopAt(i)
            /\ Exited(i)
            /\ Vals(calls[i]) = SubSeq(sent[i - 1], 1, StopAt(i))
            /\ sent[i] = Candidates(i, SubSeq(calls[i], 1, StopAt(i) - 1))
            /\ (i = N /\ ret # "running" /\ ~ConsumerFailed)
                   => (ret = Nil /\ Consumed = sent[N])

C2_Witness ==
    /\ HasStop(N)
    /\ StopAt(N) = 2
    /\ Cap(N) > 0
    /\ ret = Nil
    /\ Len(Consumed) = 1

\* C3: no value is enqueued on any output channel once the cancellation
\* signal is done: a worker that finds it done at its send, or sees it
\* become done while blocked there, returns without enqueuing.
C3_NoEnqueueAfterCancel == [][cancelled => sent' = sent]_vars

\* C4: once the cancellation signal is done, every NewSlice, Map and Filter
\* worker eventually terminates with its output closed and Consume, if it
\* is still running, eventually returns; also when Consume has already
\* returned on a consumer error and the workers are blocked on their sends.
C4_CancelledQuiesces == cancelled ~> Quiescent

\* Consume has returned on a consumer error, and a Map worker that was left
\* with a candidate has exited through the cancellation case of its select
C4_Witness ==
    /\ cancelled
    /\ Quiescent
    /\ ret = Boom
    /\ \E i \in Stages :
          /\ kinds[i] = "Map"
          /\ \A k \in 1..Len(calls[i]) : calls[i][k].err = Nil
          /\ Len(calls[i]) > Len(sent[i])

\* C5: every output channel is closed at most once, only by the worker that
\* owns it, and is closed exactly when that worker has returned, whatever
\* the exit path; once closed, nothing more is enqueued on it and nobody
\* closes it again.
C5_ClosedOnceByOwner ==
    /\ [](\A c \in Chans :
            /\ Len(closedBy[c]) <= 1
            /\ \A k \in 1..Len(closedBy[c]) : closedBy[c][k] = c
            /\ (pc[c] = "done") <=> Closed(c))
    /\ [][\A c \in Chans :
            Closed(c) => (sent'[c] = sent[c] /\ closedBy'[c] = closedBy[c])]_vars

\* all three exit paths taken: NewSlice by cancellation, the first stage by
\* the end of its upstream, the second by a Stop decision
C5_Witness ==
    /\ N = 2
    /\ AllExited
    /\ idx <= Len(slice)
    /\ ~HasStop(1)
    /\ Len(calls[1]) = Len(sent[1])
    /\ HasStop(2)
    /\ ret = Nil

\* C6: the consumer is called on the values of the final channel in order;
\* a call that fails is the last call and Consume returns its error; Consume
\* returns nil only at the end of the stream, every value delivered.
C6_ConsumeFirstError ==
    /\ Consumed = SubSeq(sent[N], 1, Len(ccalls))
    /\ \A k \in 1..Len(ccalls) :
          ccalls[k].err # Nil => (k = Len(ccalls) /\ ret = ccalls[k].err)
    /\ ret = Nil => (AtEnd(N) /\ Consumed = sent[N])
    /\ ret \notin {"running", Nil} => ConsumerFailed

C6_Witness ==
    /\ ret = Boom
    /\ Len(ccalls) = 1
    /\ Ready(N)

\* C7: a panic of the user function is contained: the worker closes its
\* output and exits, and the process keeps running.
C7_FaultContained == \A i \in faulted : Exited(i) /\ ~crashed

\* C8: with no cancellation, no Stop decision and a consumer that never
\* fails, Consume eventually returns nil and every worker has exited with
\* its output closed, for every chain and all capacities.
C8_HappyPathTerminates ==
    <>((Quiescent /\ ret = Nil) \/ cancelled \/ AnyStop \/ ConsumerFailed)

C8_Witness ==
    /\ Quiescent
    /\ ret = Nil
    /\ ~cancelled
    /\ ~AnyStop
    /\ N = 2
    /\ \A c \in Chans : Cap(c) = 0
    /\ Len(Consumed) >= 2

\* C9 as claimed: after a Stop decision and Consume's return from the
\* drained final channel, every worker eventually exits, cancelled or not.
C9_StopPathQuiescesUncancelled == (AnyStop /\ ret = Nil) ~> AllExited

\* C9 as amended: the stopping worker has exited with its output closed,
\* and after Consume's return every worker eventually exits once the
\* cancellation signal has fired.
C9_StopPathQuiescesOnceCancelled ==
    /\ [](\A i \in Stages : HasStop(i) => Exited(i))
    /\ (AnyStop /\ ret = Nil /\ cancelled) ~> AllExited

C9_Witness ==
    /\ HasStop(N)
    /\ ret = Nil
    /\ cancelled
    /\ AllExited
    /\ idx <= Len(slice)

\* C10: Filter forwards the upstream value exactly for the calls that
\* returned (true, nil); the handler is not called when the predicate
\* returned no error; a predicate error drops the value whatever the
\* boolean.  Drained under the default handler, the output is the input
\* restricted to the calls that returned (true, nil), in input order.
C10_FilterSemantics ==
    /\ \A i \in Stages :
          kinds[i] = "Filter" =>
            /\ \A k \in 1..Len(calls[i]) :
                  calls[i][k].err = Nil => calls[i][k].dec = NoDecision
            /\ IF pc[i] = "send"
               THEN Candidates(i, calls[i]) = Append(sent[i], held[i])
               ELSE \/ Candidates(i, calls[i]) = sent[i]
                    \/ /\ cancelled
                       /\ Exited(i)
                       /\ Candidates(i, calls[i]) # <<>>
                       /\ Accepted(calls[i][Len(calls[i])])
                       /\ sent[i] = SubSeq(Candidates(i, calls[i]), 1,
                                           Len(Candidates(i, calls[i])) - 1)
    /\ (/\ kinds = <<"Filter">>
        /\ Handler(1) = IgnoreErrorHandler
        /\ ~cancelled
        /\ ret = Nil)
       => /\ Vals(calls[1]) = slice
          /\ Consumed = Candidates(1, calls[1])

C10_Witness ==
    /\ kinds = <<"Filter">>
    /\ Handler(1) = IgnoreErrorHandler
    /\ ~cancelled
    /\ ret = Nil
    /\ Len(Consumed) = 1
    /\ \E k \in 1..Len(calls[1]) : calls[1][k].ok /\ calls[1][k].err # Nil
\* s is a subsequence of t: the elements of s occur in t in the same order
RECURSIVE IsSubseq(_, _)
IsSubseq(s, t) ==
    IF s = <<>> THEN TRUE
    ELSE IF t = <<>> THEN FALSE
    ELSE IF Head(s) = Head(t) THEN IsSubseq(Tail(s), Tail(t))
    ELSE IsSubseq(s, Tail(t))

\* what stage i emits for the upstream value v, when it emits
Out(i, v) == IF kinds[i] = "Map" THEN MapResult(v) ELSE v

\* the number of values stage i has received from its upstream
Received(i) == Len(sent[i - 1]) - Len(buf[i - 1])

\* C11: in every reachable state, whatever the capacities and the timing of
\* cancellation and of error decisions, the values a stage has enqueued are
\* the outputs of a subsequence of the values it has received, in the same
\* order and at most one per received value; what it has received is a
\* prefix of what its upstream enqueued, and NewSlice has enqueued a prefix
\* of its slice.
C11_OutputIsSubsequence ==
    /\ ~inq.on => sent[0] = SubSeq(slice, 1, Len(sent[0]))
    /\ \A i \in Stages :
          /\ Received(i) = Len(calls[i])
          /\ Vals(calls[i]) = SubSeq(sent[i - 1], 1, Len(calls[i]))
          /\ Len(sent[i]) <= Len(calls[i])
          /\ IsSubseq(sent[i], [k \in 1..Len(calls[i]) |-> Out(i, calls[i][k].v)])

\* the first received value gave nothing, the second was emitted, and the
\* cancellation signal has fired
C11_Witness ==
    \E i \in Stages :
        /\ cancelled
        /\ Len(calls[i]) = 2
        /\ sent[i] = <<Out(i, calls[i][2].v)>>

\* C12: the capacity of every output handle (of NewSlice, New, Map and
\* Filter) is the n of the WithSize(n) given to its stage and 0 when none is
\* given, and its queue never holds more values than that capacity.
C12_CapacityIsWithSize ==
    \A c \in Chans :
        /\ Cap(c) = LastSize(opts[c])
        /\ Len(buf[c]) <= Cap(c)
        /\ Len(buf[c]) <= Len(sent[c])

\* New's handle is full and its worker waits with the next value; the Map
\* that follows has a rendezvous handle
C12_Witness ==
    /\ inq.on
    /\ opts[0] = <<WithSize(MaxCap)>>
    /\ Len(buf[0]) = MaxCap
    /\ pc[0] = "send"
    /\ held[0] # 0
    /\ opts[1] = <<>>
    /\ Cap(1) = 0

\* C13: the error handler is called exactly for the calls whose user
\* function returned an error, with that very error, and then returns a
\* decision; it is not called for a call that succeeded.  Whatever the
\* decisions, Consume returns nil unless the consumer itself failed, and
\* then it returns the consumer's error.
C13_ErrorsStayInThePolicy ==
    /\ \A i \in Stages : \A k \in 1..Len(calls[i]) :
          IF calls[i][k].err = Nil
          THEN calls[i][k].harg = NoDecision /\ calls[i][k].dec = NoDecision
          ELSE /\ calls[i][k].harg = calls[i][k].err
               /\ calls[i][k].dec \in HandlerDecisions(Handler(i))
    /\ (ret # "running" /\ ~ConsumerFailed) => ret = Nil
    /\ ret \notin {"running", Nil} => ret \in ConsumerErrs /\ ConsumerFailed

\* one stage ignored an error, another stopped on one, and Consume returned nil
C13_Witness ==
    /\ N = 2
    /\ ret = Nil
    /\ \E k \in 1..Len(calls[1]) : calls[1][k].dec = DecisionIgnore
    /\ HasStop(2)

\* C14: when the cancellation signal fires while Consume is running with a
\* consumer that does not fail, Consume eventually returns nil: it sees the
\* cancellation as the end of its stream.  The consumer has been called on
\* every value Consume has received.
C14_CancelSeenAsEndOfStream ==
    /\ [](Len(sent[N]) - Len(buf[N]) = Len(ccalls))
    /\ (cancelled /\ ret = "running") ~> (ret = Nil \/ ConsumerFailed)

\* the stream was cut short by the cancellation alone
C14_Witness ==
    /\ cancelled
    /\ ret = Nil
    /\ Consumed # <<>>
    /\ idx <= Len(slice)
    /\ \A i \in Stages : \A k \in 1..Len(calls[i]) : Accepted(calls[i][k])

\* C15: for an empty slice nothing is ever enqueued, no user function and
\* no consumer is called, and Consume eventually returns nil with every
\* worker exited and every output closed.
C15_EmptyInput ==
    /\ [](slice = <<>> =>
            /\ \A c \in Chans : sent[c] = <<>> /\ calls[c] = <<>>
            /\ ccalls = <<>>
            /\ ret \in {"running", Nil}
            /\ ret = Nil => AllExited)
    /\ (slice = <<>>) ~> (ret = Nil /\ AllExited)

C15_Witness ==
    /\ slice = <<>>
    /\ N = 2
    /\ ~cancelled
    /\ ret = Nil
    /\ AllExited

\* C16: buildOpts gives size 0 and the Ignore handler to a field no option
\* sets; the last option for a field wins; an option appended for one field
\* changes that field only.
C16_LastOptionWins ==
    built # <<>> =>
        LET fs == opts[0]
            o == built[1]
        IN  /\ o.size = LastSize(fs)
            /\ o.onError = LastHandler(fs)
            /\ \A n \in 0..MaxCap :
                  buildOpts(Append(fs, WithSize(n))) = [o EXCEPT !.size = n]
            /\ \A h \in {IgnoreErrorHandler, UserHandler} :
                  buildOpts(Append(fs, WithErrHandler(h)))
                      = [o EXCEPT !.onError = h]

\* WithSize, WithErrHandler, WithSize: the later size wins, the handler stays
C16_Witness ==
    /\ built = <<[size |-> 0, onError |-> UserHandler]>>
    /\ opts[0] = <<WithSize(1), WithErrHandler(UserHandler), WithSize(0)>>

\* C17: New forwards what it received from the caller's queue in receipt
\* order, holding back at most the one value it is sending; its output is
\* closed once, by its worker, and only after the caller closed the queue or
\* the cancellation fired; nobody but the caller closes the caller's queue;
\* once the caller closes the queue the worker exits.
C17_NewExitsOnceInputClosed ==
    /\ [](/\ inq.got = SubSeq(slice, 1, Len(inq.got))
          /\ sent[0] = SubSeq(inq.got, 1, Len(sent[0]))
          /\ Len(inq.got) - Len(sent[0]) \in {0, 1}
          /\ (Exited(0) /\ ~cancelled) => sent[0] = inq.got
          /\ Closed(0) => /\ closedBy[0] = <<0>>
                          /\ cancelled \/ inq.closedBy # <<>>
          /\ inq.closedBy \in {<<>>, <<"caller">>})
    /\ (inq.closedBy # <<>>) ~> Exited(0)

\* C17 (amended): as above, but the worker exits once the caller closes
\* the queue only when it is waiting on the queue, or when no transform
\* stopped and the consumer did not fail so that its last value is taken;
\* a worker blocked on a send nobody receives exits at cancellation.
C17_NewExitsWhenNotBlocked ==
    /\ [](/\ inq.got = SubSeq(slice, 1, Len(inq.got))
          /\ sent[0] = SubSeq(inq.got, 1, Len(sent[0]))
          /\ Len(inq.got) - Len(sent[0]) \in {0, 1}
          /\ (Exited(0) /\ ~cancelled) => sent[0] = inq.got
          /\ Closed(0) => /\ closedBy[0] = <<0>>
                          /\ cancelled \/ inq.closedBy # <<>>
          /\ inq.closedBy \in {<<>>, <<"caller">>})
    /\ (inq.closedBy # <<>> /\ pc[0] = "recv") ~> Exited(0)
    /\ (inq.closedBy # <<>>) ~> (Exited(0) \/ AnyStop \/ ConsumerFailed)
    /\ (inq.closedBy # <<>> /\ cancelled) ~> Exited(0)

C17_Witness ==
    /\ inq.on
    /\ ~cancelled
    /\ Len(slice) >= 2
    /\ inq.closedBy = <<"caller">>
    /\ Exited(0)
    /\ sent[0] = slice
    /\ Consumed = [k \in 1..Len(slice) |-> MapResult(slice[k])]

\* C18: once the handler of a stage has returned Stop, the stage receives
\* no further upstream value and calls neither its user function nor its
\* handler again.
C18_StopIsLastCallback ==
    [][\A i \in Stages :
         HasStop(i) => (calls'[i] = calls[i] /\ Received(i)' = Received(i))]_vars

\* a stage has stopped while its upstream has a further value for it
C18_Witness == \E i \in Stages : HasStop(i) /\ Ready(i - 1)

\* C19: in NewSlice -> Map -> Consume with every capacity 0, once the
\* consumer has fired the cancellation during one of its calls, the consumer
\* is not called again: the number of its calls is exactly k.
C19_NoCallAfterConsumerCancel ==
    [][(/\ kinds = <<"Map">>
        /\ \A c \in Chans : Cap(c) = 0
        /\ cancelled)
        => ccalls' = ccalls]_vars

\* C20: once the cancellation signal is done, no Map or Filter worker calls
\* its user function on a value it receives afterwards.
C20_NoCallAfterCancel == [][cancelled => calls' = calls]_vars
(***************************************************************************)
(* The run without cancellation.  The user functions and the handler are   *)
(* fixed by the calls made so far (every stage sees a value at most once), *)
(* so the run is computed from them and ends where it would need a call    *)
(* that has not been made.                                                 *)
(***************************************************************************)
IsPrefix(s, t) == Len(s) <= Len(t) /\ s = SubSeq(t, 1, Len(s))

\* what stage i emits for in[k], in[k+1], ... when every send goes through
RECURSIVE RefStage(_, _, _)
RefStage(i, in, k) ==
    IF k > Len(in) THEN <<>>
    ELSE LET J == {j \in 1..Len(calls[i]) : calls[i][j].v = in[k]}
         IN  IF J = {} THEN <<>>
             ELSE LET r == calls[i][CHOOSE j \in J : TRUE]
                  IN  IF r.dec = DecisionStop THEN <<>>
                      ELSE (IF Accepted(r) THEN <<Out(i, in[k])>> ELSE <<>>)
                               \o RefStage(i, in, k + 1)

\* the values enqueued on channel c in that run
RECURSIVE RefOut(_)
RefOut(c) == IF c = 0 THEN slice ELSE RefStage(c, RefOut(c - 1), 1)

\* the values Consume hands to the consumer in that run: it returns at the
\* first value on which the consumer fails
RefDelivered ==
    LET out == RefOut(N)
        F == {k \in 1..Len(out) :
                \E j \in 1..Len(ccalls) :
                    ccalls[j].v = out[k] /\ ccalls[j].err # Nil}
    IN  IF F = {} THEN out
        ELSE SubSeq(out, 1, CHOOSE k \in F : \A j \in F : k <= j)

\* C21: whenever and however the cancellation fires, the values delivered
\* to the consumer are a prefix of what the same pipeline (same input, same
\* user functions, same handler) delivers when the cancellation never fires.
C21_CancellationOnlyTruncates == IsPrefix(Consumed, RefDelivered)

\* the cancellation cut the stream: a stage dropped a candidate the run
\* without cancellation delivers
C21_Witness ==
    /\ cancelled
    /\ Quiescent
    /\ Consumed # <<>>
    /\ Len(Consumed) < Len(RefDelivered)

\* the worker that owns channel c is in its select with a send that cannot
\* go through: the queue is full and whoever receives from c has returned
\* or is blocked in the same way
RECURSIVE Blocked(_)
Blocked(c) ==
    /\ c \in Chans
    /\ pc[c] = "send"
    /\ Len(buf[c]) = Cap(c)
    /\ IF c = N THEN ret # "running"
       ELSE pc[c + 1] = "done" \/ Blocked(c + 1)

\* C22: Consume returning the consumer's error fires no cancellation; while
\* the cancellation has not fired, a worker blocked on its send stays blocked
\* with its output open; the workers that still have a value to send end up
\* blocked; they exit once the cancellation has fired.
C22_BlockedUntilCancelled ==
    /\ [][/\ ccalls' # ccalls => cancelled' = cancelled
          /\ \A c \in Chans :
                (ConsumerFailed /\ ~cancelled /\ Blocked(c))
                    => (Blocked(c)' /\ ~Closed(c)')]_vars
    /\ ConsumerFailed ~>
          IF cancelled THEN AllExited
          ELSE \A c \in Chans : Exited(c) \/ Blocked(c)

\* the consumer failed, nobody cancelled, and a worker is stuck in its
\* select with a value, its output open
C22_Witness ==
    /\ ConsumerFailed
    /\ ~cancelled
    /\ \E c \in Chans : Blocked(c) /\ ~Closed(c)

\* C23: after a user-function error the worker returns, closing its output,
\* exactly when the handler's decision is the Stop value; for every other
\* decision (Ignore, the empty string, any other string) it emits nothing
\* for the element, now or later, and goes back to receiving.
C23_OnlyStopStops ==
    /\ [](\A i \in Stages : \A k \in 1..Len(calls[i]) :
            calls[i][k].err # Nil =>
                \A j \in 1..Len(sent[i]) : sent[i][j] # Out(i, calls[i][k].v))
    /\ [][\A i \in Stages :
            Len(calls'[i]) = Len(calls[i]) + 1 =>
                LET r == calls'[i][Len(calls'[i])]
                IN  r.err # Nil =>
                        IF r.dec = DecisionStop
                        THEN pc'[i] = "done" /\ Closed(i)'
                        ELSE /\ pc'[i] = "recv"
                             /\ held'[i] = 0
                             /\ sent'[i] = sent[i]
                             /\ ~Closed(i)']_vars

\* the handler answered "" for the first element and the stage went on to
\* emit the second
C23_Witness ==
    \E i \in Stages :
        /\ Len(calls[i]) = 2
        /\ calls[i][1].err # Nil
        /\ calls[i][1].dec = ""
        /\ Accepted(calls[i][2])
        /\ sent[i] = <<Out(i, calls[i][2].v)>>

====
